---------------------------- MODULE Spec2Model ----------------------------
(***************************************************************************)
(* Model of src/app.py: the PDF form filler and field designer.            *)
(*                                                                         *)
(* A PDF string is a sequence of tokens: the delimiters "(" and ")" are    *)
(* tokens of their own, every other token is a run of characters holding   *)
(* no parenthesis.  A PDF name such as /Yes is the one-token string        *)
(* <<"/Yes">>.  A key that a dictionary does not hold reads as None.       *)
(***************************************************************************)
EXTENDS Integers, Sequences, FiniteSets, TLC

\* ------------------------------------------------------------- bounds ----
\* Longest field list a posted template carries.
MaxFields == 2

\* page_png, src/app.py:359
Zoom == 2

\* ------------------------------------------------------ PDF primitives ----
\* dict.get / getattr on a key the dictionary lacks
None == <<"None">>

Off == <<"/Off">>

\* PdfName('Widget'), PdfName('Tx'), and the other tags documents carry
Widget == <<"/Widget">>

Link == <<"/Link">>

Tx == <<"/Tx">>

Btn == <<"/Btn">>

\* Python truthiness of a string-or-None
Truthy(s) == s # None /\ s # << >>

RECURSIVE LStrip(_)
LStrip(s) == IF s # << >> /\ Head(s) \in {"(", ")"} THEN LStrip(Tail(s)) ELSE s

RECURSIVE RStrip(_)
RStrip(s) ==
    IF s # << >> /\ s[Len(s)] \in {"(", ")"}
    THEN RStrip(SubSeq(s, 1, Len(s) - 1))
    ELSE s

\* str.strip('()')
Strip(s) == RStrip(LStrip(s))

\* '({})'.format(name)
Paren(name) == <<"(">> \o name \o <<")">>

\* An annotation dictionary of a page's /Annots.  AP is the on-state key of
\* the normal appearance dictionary, Parent the group it is a kid of.
\* Ff and F read -1 where the dictionary holds none.
Annot(subtype, t, ft, v, as, ap, parent, tu, rect) ==
    [Subtype |-> subtype, T |-> t, FT |-> ft, V |-> v, AS |-> as, AP |-> ap,
     Parent |-> parent, TU |-> tu, Rect |-> rect,
     Ff |-> -1, DA |-> None, F |-> -1]

NoAnnots == <<"NoAnnots">>

NoGroup == "none"

\* ------------------------------------------------- uploaded documents ----
\* The documents a user uploads.  DocA: one Letter page with a text field
\* and a ticked checkbox.  DocB: two pages with a link, a radio group g of
\* two named kids (a is on), a text field called name, a radio group h
\* whose kids have no /T of their own, a widget with an empty name and a
\* second widget called name.  DocC:
\* one A4 page without fields or form container.
DocA ==
    [acro |-> "dict", NeedAppearances |-> FALSE,
     groups |-> [gid \in {} |-> None],
     pages |-> <<
        [size |-> <<612, 792>>,
         Annots |-> <<
            Annot(Widget, <<"(", "name", ")">>, Tx, <<"(", "Alice", ")">>,
                  None, None, NoGroup, <<"(", "Ihr Name", ")">>, <<50, 700, 250, 720>>),
            Annot(Widget, <<"(", "subscribe", ")">>, Btn, <<"/Yes">>,
                  <<"/Yes">>, <<"/Yes">>, NoGroup, None, <<50, 650, 62, 662>>) >>] >>]

DocB ==
    [acro |-> "dict", NeedAppearances |-> FALSE,
     groups |-> [gid \in {"g", "h"} |->
                   IF gid = "g"
                   THEN [T |-> <<"(", "g", ")">>, FT |-> Btn, V |-> <<"/a">>, Kids |-> 2]
                   ELSE [T |-> <<"(", "h", ")">>, FT |-> Btn, V |-> <<"/1">>, Kids |-> 2]],
     pages |-> <<
        [size |-> <<595, 500>>,
         Annots |-> <<
            Annot(Link, None, None, None, None, None, NoGroup, None, <<10, 10, 20, 20>>),
            Annot(Widget, <<"(", "a", ")">>, Btn, None,
                  <<"/a">>, <<"/a">>, "g", None, <<50, 400, 62, 412>>),
            Annot(Widget, <<"(", "b", ")">>, Btn, None,
                  Off, <<"/b">>, "g", None, <<70, 400, 82, 412>>),
            Annot(Widget, <<"(", "name", ")">>, Tx, <<"(", "Carol", ")">>,
                  None, None, NoGroup, None, <<50, 300, 250, 320>>) >>],
        [size |-> <<595, 300>>,
         Annots |-> <<
            Annot(Widget, None, Btn, None,
                  <<"/1">>, <<"/1">>, "h", None, <<50, 200, 62, 212>>),
            Annot(Widget, None, Btn, None,
                  Off, <<"/2">>, "h", None, <<70, 200, 82, 212>>),
            Annot(Widget, <<"(", ")">>, Tx, None,
                  None, None, NoGroup, None, <<50, 100, 250, 120>>),
            Annot(Widget, <<"(", "name", ")">>, Tx, <<"(", "Dave", ")">>,
                  None, None, NoGroup, None, <<50, 60, 250, 80>>) >>] >>]

DocC ==
    [acro |-> "none", NeedAppearances |-> FALSE,
     groups |-> [gid \in {} |-> None],
     pages |-> << [size |-> <<595, 842>>, Annots |-> NoAnnots] >>]

DocKeys == {"A", "B", "C"}

\* PdfReader(path) / fitz.open(path) of a readable file
DocOf(k) == CASE k = "A" -> DocA [] k = "B" -> DocB [] k = "C" -> DocC

NoDoc == [acro |-> "none", NeedAppearances |-> FALSE,
          groups |-> [gid \in {} |-> None], pages |-> << >>]

\* ------------------------------------------------------------ helpers ----
\* getattr(pdf.Root, 'AcroForm', None) is truthy: a non-empty dictionary
HasAcroForm(pdf) == pdf.acro = "dict"

\* _set_need_appearances
SetNeedAppearances(pdf) ==
    [pdf EXCEPT !.acro = "dict", !.NeedAppearances = TRUE]

\* getattr(page, 'Annots', []) or []
AnnotsOf(page) == IF page.Annots = NoAnnots THEN << >> ELSE page.Annots

\* the (page, annot) positions of a document in scan order
RECURSIVE Refs(_, _, _)
Refs(pdf, p, i) ==
    IF p > Len(pdf.pages) THEN << >>
    ELSE IF i > Len(AnnotsOf(pdf.pages[p])) THEN Refs(pdf, p + 1, 1)
    ELSE << <<p, i>> >> \o Refs(pdf, p, i + 1)

AnnotAt(pdf, ref) == AnnotsOf(pdf.pages[ref[1]])[ref[2]]

\* name = (annot.get('/T') or '').strip('()') if annot.get('/T') else None
WidgetName(annot) == IF Truthy(annot.T) THEN Strip(annot.T) ELSE None

\* fields[name] = annot on an insertion-ordered dict: a name seen before
\* keeps its place and takes the new widget
DictPut(fields, name, ref) ==
    IF \E j \in 1..Len(fields) : fields[j].name = name
    THEN [j \in 1..Len(fields) |->
            IF fields[j].name = name THEN [name |-> name, ref |-> ref] ELSE fields[j]]
    ELSE Append(fields, [name |-> name, ref |-> ref])

RECURSIVE ScanRefs(_, _, _)
ScanRefs(pdf, refs, fields) ==
    IF refs = << >> THEN fields
    ELSE LET annot == AnnotAt(pdf, Head(refs))
             name == WidgetName(annot)
         IN IF annot.Subtype # Widget \/ ~Truthy(name)
            THEN ScanRefs(pdf, Tail(refs), fields)
            ELSE ScanRefs(pdf, Tail(refs), DictPut(fields, name, Head(refs)))

\* _get_widgets: the ordered name -> widget dict (the second result is
\* always the empty dict)
GetWidgets(pdf) ==
    IF ~HasAcroForm(pdf) THEN << >> ELSE ScanRefs(pdf, Refs(pdf, 1, 1), << >>)

\* _field_desc: every widget is described as a text input; only a /Tx
\* widget carries its value, stripped of the string delimiters
FieldDesc(name, widget) ==
    [type |-> "text", name |-> name,
     label |-> IF Truthy(widget.TU) THEN widget.TU ELSE name,
     value |-> IF widget.FT = Tx /\ widget.V # None THEN Strip(widget.V) ELSE None]

\* upload: [_field_desc(name, w, radio_selected) for name, w in widgets.items()]
Describe(pdf, fields) ==
    [j \in 1..Len(fields) |-> FieldDesc(fields[j].name, AnnotAt(pdf, fields[j].ref))]

\* widget.update(PdfDict(V=str(value)))
UpdateVAppend(widget, value) == [widget EXCEPT !.V = @ \o value]

UpdateV(widget, value) == [widget EXCEPT !.V = value]

SetAnnot(pdf, ref, annot) ==
    [pdf EXCEPT !.pages[ref[1]].Annots[ref[2]] = annot]

\* fill: for name, widget in fields.items(): if name in values: ...
RECURSIVE FillLoop(_, _, _)
FillLoop(pdf, fields, values) ==
    IF fields = << >> THEN pdf
    ELSE LET f == Head(fields)
         IN IF f.name \in DOMAIN values
            THEN FillLoop(SetAnnot(pdf, f.ref, UpdateV(AnnotAt(pdf, f.ref), values[f.name])),
                          Tail(fields), values)
            ELSE FillLoop(pdf, Tail(fields), values)

\* fill, the mutation of the opened document
FillDoc(pdf, values) ==
    LET marked == SetNeedAppearances(pdf)
    IN FillLoop(marked, GetWidgets(marked), values)

\* build: the IndirectPdfDict of one field spec on a page of height page_h
TextField(fld, page_h) ==
    LET pdf_y == page_h - fld.y - fld.h
    IN [Subtype |-> Widget, T |-> Paren(fld.name), FT |-> Tx, V |-> << >>,
        AS |-> None, AP |-> None, Parent |-> NoGroup, TU |-> None,
        Rect |-> <<fld.x, pdf_y, fld.x + fld.w, pdf_y + fld.h>>,
        Ff |-> 0, DA |-> <<"(", "/Helv 10 Tf 0 g", ")">>, F |-> 4]

\* page_fields = [f for f in tmpl["fields"] if int(f["page"]) == idx]
PageFields(tmpl, idx) == SelectSeq(tmpl.fields, LAMBDA f : f.page = idx)

RECURSIVE AppendFields(_, _, _)
AppendFields(annots, flds, page_h) ==
    IF flds = << >> THEN annots
    ELSE AppendFields(Append(annots, TextField(Head(flds), page_h)), Tail(flds), page_h)

\* build, the loop over the pages; tmpl["page_sizes"][idx-1] raises
\* IndexError on a list shorter than the page list
RECURSIVE BuildPages(_, _, _)
BuildPages(pdf, tmpl, idx) ==
    IF idx > Len(pdf.pages) THEN [ok |-> TRUE, pdf |-> pdf]
    ELSE IF idx > Len(tmpl.page_sizes) THEN [ok |-> FALSE, pdf |-> NoDoc]
    ELSE LET page_h == tmpl.page_sizes[idx][2]
             annots == AppendFields(AnnotsOf(pdf.pages[idx]), PageFields(tmpl, idx), page_h)
         IN BuildPages([pdf EXCEPT !.pages[idx].Annots = annots], tmpl, idx + 1)

\* build, the mutation of the opened document
BuildDoc(pdf, tmpl) == BuildPages(SetNeedAppearances(pdf), tmpl, 1)

\* build: if not tmpl["fields"]
NoFieldsByPageSizes(tmpl) == tmpl.page_sizes = << >>

NoFields(tmpl) == tmpl.fields = << >>

\* designer: [rect.width, rect.height] of every page
PageSizes(pdf) == [p \in 1..Len(pdf.pages) |-> pdf.pages[p].size]

\* session.get('template') or {"fields": [], "page_sizes": []}
EmptyTemplate == [fields |-> << >>, page_sizes |-> << >>]

\* ------------------------------------------------------- request inputs ----
\* names the upload form submits ("" when no file was chosen)
FileNames == {"a.pdf", "b.pdf"}

\* what an uploaded file holds: a catalogue document or bytes no reader parses
Contents == DocKeys \cup {"garbage"}

\* the keys a fill form may carry
FormKeys == {<<"name">>, <<"subscribe">>, <<"g">>}

\* what the user typed into each input of the form
FormValue(k) ==
    CASE k = <<"name">> -> <<"Bob">>
      [] k = <<"subscribe">> -> <<"Yes">>
      [] k = <<"g">> -> <<"b">>

\* a submission carries any subset of the keys
FormSubmissions == {[k \in ks |-> FormValue(k)] : ks \in SUBSET FormKeys}

NoValues == [k \in {} |-> << >>]

\* field specs the designer page posts: pixel coordinates on the page image
FieldSpecs ==
    {[page |-> 1, x |-> 100, y |-> 50, w |-> 180, h |-> 20,
      name |-> <<"kunde_name">>, type |-> "text"],
     [page |-> 1, x |-> 40, y |-> 120, w |-> 160, h |-> 24,
      name |-> <<"name">>, type |-> "text"],
     [page |-> 2, x |-> 60, y |-> 200, w |-> 180, h |-> 20,
      name |-> <<"ort">>, type |-> "text"]}

FieldLists == UNION {[1..n -> FieldSpecs] : n \in 0..MaxFields}

\* the page_sizes a client posts: none, or the list the designer page served
SizeLists(served) == {<< >>, served}

PostedTemplates(served) == [fields : FieldLists, page_sizes : SizeLists(served)]

PageNumbers == 0..3

\* ---------------------------------------------------------------- state ----
VARIABLES
    files,      \* UPLOAD_FOLDER: file name -> what the file holds, or "absent"
    session,    \* the Flask session: pdf_path, fields_render, template
    resp,       \* the response of the last request
    captured    \* history: the file content designer read page_sizes from

vars == <<files, session, resp, captured>>

Response(op, status, flash) ==
    [op |-> op, status |-> status, flash |-> flash, out |-> NoDoc,
     values |-> NoValues, n |-> 0]

Init ==
    /\ files = [f \in FileNames |-> "absent"]
    /\ session = [pdf_path |-> "", fields_render |-> << >>, template |-> << >>]
    /\ resp = Response("none", "none", "")
    /\ captured = "none"

\* _ensure_upload: the session's path when it names an existing file, else ""
EnsureUpload ==
    IF session.pdf_path = "" \/ files[session.pdf_path] = "absent"
    THEN ""
    ELSE session.pdf_path

Readable(path) == files[path] \in DocKeys

\* session.get('template') or {"fields": [], "page_sizes": []}
SessionTemplate ==
    IF session.template = << >> THEN EmptyTemplate ELSE session.template[1]

\* ------------------------------------------------------------- handlers ----
\* GET /
Index ==
    /\ resp' = [Response("index", "html", "") EXCEPT !.n = Len(session.fields_render)]
    /\ UNCHANGED <<files, session, captured>>

\* POST /upload without a file
UploadNoFile ==
    /\ resp' = Response("upload", "redirect_index", "Keine Datei")
    /\ UNCHANGED <<files, session, captured>>

\* POST /upload: the file is saved and the session pointed at it before it
\* is parsed
Upload ==
    \E name \in FileNames, content \in Contents :
        /\ files' = [files EXCEPT ![name] = content]
        /\ IF content = "garbage"
           THEN /\ session' = [session EXCEPT !.pdf_path = name]
                /\ resp' = Response("upload", "redirect_index", "nicht gelesen")
           ELSE LET pdf == SetNeedAppearances(DocOf(content))
                    fields_render == Describe(pdf, GetWidgets(pdf))
                IN /\ session' = [session EXCEPT !.pdf_path = name,
                                                 !.fields_render = fields_render]
                   /\ resp' = [Response("upload", "redirect_index", "erkannt")
                                 EXCEPT !.n = Len(fields_render)]
        /\ UNCHANGED captured

\* POST /fill
Fill ==
    \E values \in FormSubmissions :
        /\ IF EnsureUpload = ""
           THEN resp' = Response("fill", "redirect_index", "Sitzung abgelaufen")
           ELSE IF ~Readable(EnsureUpload)
           THEN resp' = Response("fill", "error500", "")
           ELSE resp' = [Response("fill", "file", "")
                           EXCEPT !.out = FillDoc(DocOf(files[EnsureUpload]), values),
                                  !.values = values]
        /\ UNCHANGED <<files, session, captured>>

\* GET /designer
Designer ==
    IF EnsureUpload = ""
    THEN /\ resp' = Response("designer", "redirect_index", "zuerst hochladen")
         /\ UNCHANGED <<files, session, captured>>
    ELSE IF ~Readable(EnsureUpload)
    THEN /\ resp' = Response("designer", "error500", "")
         /\ UNCHANGED <<files, session, captured>>
    ELSE LET doc == DocOf(files[EnsureUpload])
             tmpl == SessionTemplate
             sized == IF tmpl.page_sizes = << >>
                      THEN [tmpl EXCEPT !.page_sizes = PageSizes(doc)]
                      ELSE tmpl
         IN /\ session' = [session EXCEPT !.template = <<sized>>]
            /\ captured' = IF tmpl.page_sizes = << >> THEN files[EnsureUpload] ELSE captured
            /\ resp' = [Response("designer", "html", "") EXCEPT !.n = Len(doc.pages)]
            /\ UNCHANGED files

\* GET /page/<pageno>
PagePng ==
    \E pageno \in PageNumbers :
        /\ IF EnsureUpload = ""
           THEN resp' = Response("page", "400", "")
           ELSE IF ~Readable(EnsureUpload)
           THEN resp' = Response("page", "error500", "")
           ELSE IF pageno < 1 \/ pageno > Len(DocOf(files[EnsureUpload]).pages)
           THEN resp' = Response("page", "404", "")
           ELSE resp' = [Response("page", "png", "") EXCEPT !.n = pageno]
        /\ UNCHANGED <<files, session, captured>>

\* POST /save-template: the posted JSON replaces the session's template
SaveTemplate ==
    \E data \in PostedTemplates(SessionTemplate.page_sizes) :
        /\ session' = [session EXCEPT !.template = <<data>>]
        /\ captured' = IF session.template # << >>
                          /\ data.page_sizes = session.template[1].page_sizes
                       THEN captured
                       ELSE "client"
        /\ resp' = Response("save", "json", "")
        /\ UNCHANGED files

\* POST /build
Build ==
    /\ IF EnsureUpload = ""
       THEN resp' = Response("build", "redirect_index", "zuerst hochladen")
       ELSE IF NoFields(SessionTemplate)
       THEN resp' = Response("build", "redirect_designer", "Kein Feld")
       ELSE IF ~Readable(EnsureUpload)
       THEN resp' = Response("build", "error500", "")
       ELSE LET built == BuildDoc(DocOf(files[EnsureUpload]), SessionTemplate)
            IN IF built.ok
               THEN resp' = [Response("build", "file", "") EXCEPT !.out = built.pdf]
               ELSE resp' = Response("build", "error500", "")
    /\ UNCHANGED <<files, session, captured>>

\* GET /health
Health ==
    /\ resp' = Response("health", "ok", "")
    /\ UNCHANGED <<files, session, captured>>

Next ==
    \/ Index
    \/ UploadNoFile
    \/ Upload
    \/ Fill
    \/ Designer
    \/ PagePng
    \/ SaveTemplate
    \/ Build
    \/ Health

Spec == Init /\ [][Next]_vars

\* --------------------------------------------------------------- claims ----
\* the last request was a fill that returned the filled document
FilledNow == resp.op = "fill" /\ resp.status = "file"

\* the last request was a build that returned the synthesized document
BuiltNow == resp.op = "build" /\ resp.status = "file"

\* the document the last fill or build opened
Source == DocOf(files[session.pdf_path])

RefSet(pdf) == {Refs(pdf, 1, 1)[j] : j \in 1..Len(Refs(pdf, 1, 1))}

KidsOf(pdf, gid) == {r \in RefSet(pdf) : AnnotAt(pdf, r).Parent = gid}

IsOn(annot) == annot.AS # None /\ annot.AS # Off

\* a button widget that is no kid of a button group with several kids
IsCheckbox(pdf, annot) ==
    /\ annot.Subtype = Widget
    /\ annot.FT = Btn
    /\ ~(/\ annot.Parent # NoGroup
         /\ pdf.groups[annot.Parent].FT = Btn
         /\ pdf.groups[annot.Parent].Kids > 1)

\* C1: after fill at most one kid of any button group is on, and when the
\* submission maps the group's name to the name of a kid, exactly that kid
\* is on and the group's value is that kid's on-state.
C1_RadioExclusivity ==
    FilledNow =>
        \A gid \in DOMAIN resp.out.groups :
            LET kids == KidsOf(resp.out, gid)
                on == {r \in kids : IsOn(AnnotAt(resp.out, r))}
                gname == Strip(resp.out.groups[gid].T)
            IN /\ Cardinality(on) <= 1
               /\ \A m \in kids :
                    (/\ gname \in DOMAIN resp.values
                     /\ WidgetName(AnnotAt(resp.out, m)) = resp.values[gname])
                    => /\ on = {m}
                       /\ resp.out.groups[gid].V = AnnotAt(resp.out, m).AP

\* C2: after fill every checkbox whose name the submission lacks has the
\* off-state as value and appearance state.
C2_CheckboxDefault ==
    FilledNow =>
        \A r \in RefSet(resp.out) :
            LET annot == AnnotAt(resp.out, r)
            IN (IsCheckbox(resp.out, annot) /\ WidgetName(annot) \notin DOMAIN resp.values)
               => (annot.V = Off /\ annot.AS = Off)

FieldValues(pdf) == [j \in 1..Len(Refs(pdf, 1, 1)) |-> AnnotAt(pdf, Refs(pdf, 1, 1)[j]).V]

\* C3: filling the filled document again with the same submission leaves
\* every field value and the NeedAppearances flag as the first fill left them.
C3_FillIdempotent ==
    FilledNow =>
        LET again == FillDoc(resp.out, resp.values)
        IN /\ FieldValues(again) = FieldValues(resp.out)
           /\ again.NeedAppearances = resp.out.NeedAppearances

\* a fill that wrote a value a widget did not hold before
C3_Witness ==
    /\ FilledNow
    /\ \E r \in RefSet(Source) : AnnotAt(resp.out, r).V # AnnotAt(Source, r).V

\* the widgets build appended to page idx
Added(idx) ==
    SubSeq(resp.out.pages[idx].Annots,
           Len(AnnotsOf(Source.pages[idx])) + 1,
           Len(resp.out.pages[idx].Annots))

\* the rectangle the transform of the specification gives a field spec
ScaledRect(fld, page_h) ==
    LET x == fld.x \div Zoom
        pdf_y == page_h - (fld.y \div Zoom) - fld.h
    IN <<x, pdf_y, x + fld.w, pdf_y + fld.h>>

\* C4: every synthesized widget's rectangle is its spec's pixel position
\* divided by the zoom of the page image, then flipped on the y-axis.
C4_CoordinateTransform ==
    BuiltNow =>
        \A idx \in 1..Len(resp.out.pages) :
            \A k \in 1..Len(Added(idx)) :
                Added(idx)[k].Rect =
                    ScaledRect(PageFields(SessionTemplate, idx)[k],
                               SessionTemplate.page_sizes[idx][2])

\* C5: build on a readable document with a non-empty field list returns a
\* document holding one new empty text widget per field spec, on the spec's
\* page.
C5_OneWidgetPerSpec ==
    (/\ resp.op = "build"
     /\ EnsureUpload # ""
     /\ Readable(session.pdf_path)
     /\ SessionTemplate.fields # << >>)
    => /\ resp.status = "file"
       /\ \A i \in 1..Len(SessionTemplate.fields) :
            LET fld == SessionTemplate.fields[i]
            IN /\ fld.page \in 1..Len(resp.out.pages)
               /\ \E k \in 1..Len(Added(fld.page)) :
                    /\ Added(fld.page)[k].T = Paren(fld.name)
                    /\ Added(fld.page)[k].FT = Tx
                    /\ Added(fld.page)[k].V = << >>
       /\ LET count[idx \in 0..Len(resp.out.pages)] ==
                IF idx = 0 THEN 0 ELSE count[idx - 1] + Len(Added(idx))
          IN count[Len(resp.out.pages)] = Len(SessionTemplate.fields)

\* the name of a widget as an inspection of the annotation graph finds it:
\* its own name, else for a button the name of its group
GraphName(pdf, annot) ==
    IF Truthy(annot.T) THEN Strip(annot.T)
    ELSE IF annot.FT = Btn /\ annot.Parent # NoGroup /\ Truthy(pdf.groups[annot.Parent].T)
    THEN Strip(pdf.groups[annot.Parent].T)
    ELSE None

GraphNames(pdf) ==
    {GraphName(pdf, AnnotAt(pdf, r)) :
        r \in {q \in RefSet(pdf) : AnnotAt(pdf, q).Subtype = Widget}} \ {None, << >>}

\* C6: the names the scanner returns for an uploaded document are exactly
\* the field names of its annotation graph.
C6_ScannerComplete ==
    (resp.op = "upload" /\ resp.flash = "erkannt")
    => {session.fields_render[j].name : j \in 1..Len(session.fields_render)}
       = GraphNames(SetNeedAppearances(Source))

\* C7: build with a document present and no field in the session's template
\* reports the empty template, returns no document and leaves the stored
\* files and the session as they were.
C7_EmptyTemplateNoOp ==
    [][(/\ resp'.op = "build"
        /\ EnsureUpload # ""
        /\ SessionTemplate.fields = << >>)
       => (/\ resp'.status = "redirect_designer"
           /\ resp'.flash = "Kein Feld"
           /\ resp'.out = NoDoc
           /\ files' = files
           /\ session' = session)]_vars

\* build refused a saved template that has page sizes and no field
C7_Witness ==
    /\ resp.op = "build"
    /\ resp.status = "redirect_designer"
    /\ session.pdf_path # ""
    /\ session.template # << >>
    /\ session.template[1].page_sizes # << >>
    /\ session.template[1].fields = << >>

\* C8: an upload that cannot be parsed, made while a readable document is
\* current, leaves the session's pdf_path and fields_render and the stored
\* file of that document as they were.
C8_UnreadableUploadNoMutation ==
    [][(/\ resp'.op = "upload"
        /\ resp'.flash = "nicht gelesen"
        /\ session.pdf_path # ""
        /\ Readable(session.pdf_path))
       => (/\ session'.pdf_path = session.pdf_path
           /\ session'.fields_render = session.fields_render
           /\ files'[session.pdf_path] = files[session.pdf_path])]_vars

\* C9: no widget build synthesizes carries the name of a field the source
\* document already has.
C9_NoNameCollision ==
    BuiltNow =>
        LET existing == {GetWidgets(SetNeedAppearances(Source))[j].name :
                            j \in 1..Len(GetWidgets(SetNeedAppearances(Source)))}
        IN \A idx \in 1..Len(resp.out.pages) :
            \A k \in 1..Len(Added(idx)) :
                WidgetName(Added(idx)[k]) \notin existing

\* C10: whenever build synthesizes widgets from page sizes that designer
\* captured, it captured them from the document now stored at pdf_path.
C10_TemplateMatchesDocument ==
    (BuiltNow /\ captured # "client") => captured = files[session.pdf_path]

=============================================================================
